---- MODULE Spec2Model ----
(***************************************************************************)
(* Model of the stack machine of rust-simple-stack-processor (src/lib.rs): *)
(* StackMachineState, the trap handler chain and StackMachine::execute.    *)
(* One call of execute is the action Execute (entry: gas and pc reset)     *)
(* followed by one Step per iteration of its dispatch loop.                *)
(***************************************************************************)
EXTENDS Integers, Sequences, FiniteSets, TLC

(* ---------------------------------------------------------------------- *)
(* Bounds of the model                                                     *)
(* ---------------------------------------------------------------------- *)
\* width in bits of the machine's signed integer (i64 in the source)
I64Bits == 10
\* gas limits tried are Limited(0) .. Limited(MaxGas), and Unlimited
MaxGas == 4
\* number of execute calls on one machine
MaxCalls == 2
\* number of handlers registered on the machine
MaxHandlers == 3
\* instructions an Unlimited run may charge before the model stops following it
MaxSteps == 7
\* number of cells the allocator can provide
MaxCells == 3

(* ---------------------------------------------------------------------- *)
(* Machine integers                                                        *)
(* ---------------------------------------------------------------------- *)
RECURSIVE Pow2(_)
Pow2(n) == IF n = 0 THEN 1 ELSE 2 * Pow2(n - 1)

\* i64::MAX and i64::MIN at the model's width
I64_MAX == Pow2(I64Bits - 1) - 1
I64_MIN == -Pow2(I64Bits - 1)
InI64(x) == I64_MIN <= x /\ x <= I64_MAX
\* two's complement wrap-around of an out-of-range result
WrapI64(x) == ((x - I64_MIN) % Pow2(I64Bits)) + I64_MIN

\* Option<i64>: None is the empty sequence, Some(v) the sequence <<v>>
None == <<>>
Some(v) == <<v>>
\* i64::checked_add / checked_sub / checked_mul: None on overflow
checked_add(a, b) == IF InI64(a + b) THEN Some(a + b) ELSE None
checked_sub(a, b) == IF InI64(a - b) THEN Some(a - b) ELSE None
\* mutant of checked_mul: the product wraps
checked_mul_Wrapping(a, b) == Some(WrapI64(a * b))
checked_mul(a, b) == IF InI64(a * b) THEN Some(a * b) ELSE None

Abs(x) == IF x < 0 THEN -x ELSE x
\* Rust's integer division truncates toward zero
TruncDiv(a, b) == IF (a < 0) = (b < 0) THEN Abs(a) \div Abs(b) ELSE -(Abs(a) \div Abs(b))
\* i64::checked_div: None when the divisor is 0 and when the quotient overflows
checked_div(a, b) ==
    IF b = 0 THEN None
    ELSE IF a = I64_MIN /\ b = -1 THEN None
    ELSE Some(TruncDiv(a, b))

\* bitwise and of two i64 values (two's complement)
RECURSIVE BitAndU(_, _, _)
BitAndU(x, y, n) ==
    IF n = 0 THEN 0
    ELSE (IF x % 2 = 1 /\ y % 2 = 1 THEN 1 ELSE 0) + 2 * BitAndU(x \div 2, y \div 2, n - 1)
ToUnsigned(x) == IF x < 0 THEN x + Pow2(I64Bits) ELSE x
BitAnd(x, y) == WrapI64(BitAndU(ToUnsigned(x), ToUnsigned(y), I64Bits))

\* usize::try_from(i64): fails exactly on a negative value
\* the largest value of the address type usize, as wide as the machine integer
USIZE_MAX == Pow2(I64Bits) - 1
UsizeFromI64Ok(v) == v >= 0
\* i64::try_from(usize): fails exactly above i64::MAX
I64FromUsizeOk(u) == u <= I64_MAX

(* ---------------------------------------------------------------------- *)
(* Opcodes, gas limits, errors                                             *)
(* ---------------------------------------------------------------------- *)
Op(name) == [op |-> name, arg |-> 0]
LDI(v) == [op |-> "LDI", arg |-> v]

Unlimited == [kind |-> "Unlimited", limit |-> 0]
Limited(n) == [kind |-> "Limited", limit |-> n]

\* values of Result<(), StackMachineError>; unused fields hold their defaults
NoResult == [tag |-> "none", failing_opcode |-> "-", id |-> 0, gas_used |-> 0, gas_limit |-> Unlimited]
OkResult == [NoResult EXCEPT !.tag = "Ok"]
Err(t) == [NoResult EXCEPT !.tag = t]
ErrOp(t, opname) == [NoResult EXCEPT !.tag = t, !.failing_opcode = opname]
\* a mutant of the error value: the identifier is dropped
UnhandledTrap_LosesId(t) == [NoResult EXCEPT !.tag = "UnhandledTrap"]
UnhandledTrap(t) == [NoResult EXCEPT !.tag = "UnhandledTrap", !.id = t]
RanOutOfGas(used, lim) == [NoResult EXCEPT !.tag = "RanOutOfGas", !.gas_used = used, !.gas_limit = lim]

(* ---------------------------------------------------------------------- *)
(* Outcome of the semantics of one instruction on the machine state S      *)
(* (a record of the fields of StackMachineState that instructions touch)   *)
(* ---------------------------------------------------------------------- *)
\* kind: "continue" (fall to the gas charge), "return" (execute returns
\* result), "panic" (the thread panics: overflow checks, allocation)
\* invoked and trap describe the run of the handler chain by a TRAP: the
\* handlers whose closure ran (position in trap_handlers, value returned) and
\* how the chain ended for which identifier
NoTrap == [how |-> "none", id |-> 0]
Outcome(S, k, r, reset) ==
    [st |-> S, kind |-> k, result |-> r, pc_reset |-> reset, invoked |-> <<>>, trap |-> NoTrap]
Cont(S) == Outcome(S, "continue", NoResult, FALSE)
Jump(S) == Outcome(S, "continue", NoResult, TRUE)
Return(S, r) == Outcome(S, "return", r, FALSE)
Panic(S) == Outcome(S, "panic", NoResult, FALSE)

\* the k-th value from the top of a stack (1 = top), and the stack without its top k
Top(s, k) == s[Len(s) - k + 1]
DropN(s, k) == SubSeq(s, 1, Len(s) - k)
Push(s, v) == Append(s, v)

\* pop_number_stack failing while trying to take k values: the values that
\* were there have been popped, the error is NumberStackUnderflow
Underflow(S) == Return([S EXCEPT !.number_stack = <<>>], Err("NumberStackUnderflow"))
Has(S, k) == Len(S.number_stack) >= k
WithNS(S, ns) == [S EXCEPT !.number_stack = ns]

(* ---------------------------------------------------------------------- *)
(* Helpers of StackMachine                                                 *)
(* ---------------------------------------------------------------------- *)
execute_binary_op(S, op(_, _), opcode) ==
    IF ~Has(S, 2) THEN Underflow(S)
    ELSE LET second == Top(S.number_stack, 1)
             first == Top(S.number_stack, 2)
             rest == DropN(S.number_stack, 2)
             result == op(first, second)
         IN  IF result = None
             THEN Return(WithNS(S, rest), ErrOp("NumericOverflow", opcode))
             ELSE Cont(WithNS(S, Push(rest, result[1])))

execute_division(S, opcode) ==
    IF ~Has(S, 2) THEN Underflow(S)
    ELSE LET divisor == Top(S.number_stack, 1)
             dividend == Top(S.number_stack, 2)
             rest == DropN(S.number_stack, 2)
             result == checked_div(dividend, divisor)
         IN  IF result = None
             THEN Return(WithNS(S, rest), ErrOp("DivisionByZero", opcode))
             ELSE Cont(WithNS(S, Push(rest, result[1])))

\* the jump itself, once the offset (and condition) have been popped into S1:
\* i64::try_from(pc)? + offset overflows to a panic when the build checks
\* overflow and wraps when it does not; usize::try_from of the sum then fails
\* on a negative value
JumpTo(S1, offset) ==
    IF ~I64FromUsizeOk(S1.pc) THEN {Return(S1, Err("TryFromIntError"))}
    ELSE LET sum == S1.pc + offset
             land(v) == IF UsizeFromI64Ok(v) THEN Jump([S1 EXCEPT !.pc = v])
                        ELSE Return(S1, Err("TryFromIntError"))
         IN  IF InI64(sum) THEN {land(sum)}
             ELSE {Panic(S1), land(WrapI64(sum))}

\* condition: "None" (JR), "SomeTrue" (JRZ), "SomeFalse" (JRNZ)
execute_jump_relative(S, condition) ==
    IF ~Has(S, 1) THEN {Underflow(S)}
    ELSE LET offset == Top(S.number_stack, 1) IN
         IF condition = "None" THEN JumpTo(WithNS(S, DropN(S.number_stack, 1)), offset)
         ELSE IF ~Has(S, 2) THEN {Underflow(S)}
         ELSE LET value == Top(S.number_stack, 2)
                  S1 == WithNS(S, DropN(S.number_stack, 2))
                  should_jump == (value = 0) = (condition = "SomeTrue")
              IN  IF should_jump THEN JumpTo(S1, offset) ELSE {Cont(S1)}

(* ---------------------------------------------------------------------- *)
(* Semantics of the opcodes: the arms of the match in execute              *)
(* ---------------------------------------------------------------------- *)
Opcode_JMP(S) ==
    IF ~Has(S, 1) THEN Underflow(S)
    ELSE LET target == Top(S.number_stack, 1)
             S1 == WithNS(S, DropN(S.number_stack, 1))
         IN  IF UsizeFromI64Ok(target) THEN Jump([S1 EXCEPT !.pc = target])
             ELSE Return(S1, Err("TryFromIntError"))

Opcode_JR(S) == execute_jump_relative(S, "None")

\* mutant of CALL: the address of the CALL itself is pushed, not pc + 1
Opcode_CALL_PushesPc(S) ==
    LET S0 == [S EXCEPT !.return_stack = Push(S.return_stack, S.pc)] IN
    IF ~Has(S0, 1) THEN Underflow(S0)
    ELSE LET target == Top(S0.number_stack, 1)
             S1 == WithNS(S0, DropN(S0.number_stack, 1))
         IN  IF UsizeFromI64Ok(target) THEN Jump([S1 EXCEPT !.pc = target])
             ELSE Return(S1, Err("TryFromIntError"))

\* mutant of CALL: the target is popped and converted before the return
\* address is pushed, so a failing CALL leaves the return stack alone
Opcode_CALL_PopsFirst(S) ==
    IF ~Has(S, 1) THEN Underflow(S)
    ELSE LET target == Top(S.number_stack, 1)
             S1 == WithNS(S, DropN(S.number_stack, 1))
         IN  IF UsizeFromI64Ok(target)
             THEN Jump([S1 EXCEPT !.return_stack = Push(S.return_stack, S.pc + 1),
                                  !.pc = target])
             ELSE Return(S1, Err("TryFromIntError"))

\* the return address is pushed before the target is popped and converted
Opcode_CALL(S) ==
    LET S0 == [S EXCEPT !.return_stack = Push(S.return_stack, S.pc + 1)] IN
    IF ~Has(S0, 1) THEN Underflow(S0)
    ELSE LET target == Top(S0.number_stack, 1)
             S1 == WithNS(S0, DropN(S0.number_stack, 1))
         IN  IF UsizeFromI64Ok(target) THEN Jump([S1 EXCEPT !.pc = target])
             ELSE Return(S1, Err("TryFromIntError"))

Opcode_CMPZ(S) ==
    IF ~Has(S, 1) THEN Underflow(S)
    ELSE LET value == Top(S.number_stack, 1) IN
         Cont(WithNS(S, Push(DropN(S.number_stack, 1), IF value = 0 THEN -1 ELSE 0)))

\* mutant of CMPNZ: the flag for a nonzero value is 1
Opcode_CMPNZ_FlagIsOne(S) ==
    IF ~Has(S, 1) THEN Underflow(S)
    ELSE LET value == Top(S.number_stack, 1) IN
         Cont(WithNS(S, Push(DropN(S.number_stack, 1), IF value = 0 THEN 0 ELSE 1)))

Opcode_CMPNZ(S) ==
    IF ~Has(S, 1) THEN Underflow(S)
    ELSE LET value == Top(S.number_stack, 1) IN
         Cont(WithNS(S, Push(DropN(S.number_stack, 1), IF value = 0 THEN 0 ELSE -1)))

Opcode_JRZ(S) == execute_jump_relative(S, "SomeTrue")

Opcode_JRNZ(S) == execute_jump_relative(S, "SomeFalse")

Opcode_LDI(S, immediate_value) == Cont(WithNS(S, Push(S.number_stack, immediate_value)))

Opcode_DROP(S) ==
    IF ~Has(S, 1) THEN Underflow(S) ELSE Cont(WithNS(S, DropN(S.number_stack, 1)))

\* mutant of RET: every RET ends the call, whatever is on the return stack
Opcode_RET_AlwaysHalts(S) == Return(S, OkResult)

\* mutant of RET: an empty return stack is reported as an error
Opcode_RET_EmptyIsError(S) ==
    IF S.return_stack # <<>>
    THEN Jump([S EXCEPT !.pc = Top(S.return_stack, 1),
                        !.return_stack = DropN(S.return_stack, 1)])
    ELSE Return(S, Err("UnknownError"))

Opcode_RET(S) ==
    IF S.return_stack # <<>>
    THEN Jump([S EXCEPT !.pc = Top(S.return_stack, 1),
                        !.return_stack = DropN(S.return_stack, 1)])
    ELSE Return(S, OkResult)

Opcode_GtR(S) ==
    IF ~Has(S, 1) THEN Underflow(S)
    ELSE Cont([S EXCEPT !.number_stack = DropN(S.number_stack, 1),
                        !.scratch_stack = Push(S.scratch_stack, Top(S.number_stack, 1))])

ScratchUnderflow(S) ==
    Return([S EXCEPT !.scratch_stack = <<>>], Err("ScratchStackUnderflow"))

Opcode_RGt(S) ==
    IF S.scratch_stack = <<>> THEN ScratchUnderflow(S)
    ELSE Cont([S EXCEPT !.scratch_stack = DropN(S.scratch_stack, 1),
                        !.number_stack = Push(S.number_stack, Top(S.scratch_stack, 1))])

Opcode_RAt(S) ==
    IF S.scratch_stack = <<>> THEN ScratchUnderflow(S)
    ELSE Cont(WithNS(S, Push(S.number_stack, Top(S.scratch_stack, 1))))

\* mutant of GtR2: the two values reach the scratch stack in pop order
Opcode_GtR2_PopOrder(S) ==
    IF ~Has(S, 2) THEN Underflow(S)
    ELSE LET x == Top(S.number_stack, 1)
             y == Top(S.number_stack, 2)
         IN  Cont([S EXCEPT !.number_stack = DropN(S.number_stack, 2),
                            !.scratch_stack = S.scratch_stack \o <<x, y>>])

Opcode_GtR2(S) ==
    IF ~Has(S, 2) THEN Underflow(S)
    ELSE LET x == Top(S.number_stack, 1)
             y == Top(S.number_stack, 2)
         IN  Cont([S EXCEPT !.number_stack = DropN(S.number_stack, 2),
                            !.scratch_stack = Push(Push(S.scratch_stack, y), x)])

Opcode_RGt2(S) ==
    IF Len(S.scratch_stack) < 2 THEN ScratchUnderflow(S)
    ELSE LET x == Top(S.scratch_stack, 1)
             y == Top(S.scratch_stack, 2)
         IN  Cont([S EXCEPT !.scratch_stack = DropN(S.scratch_stack, 2),
                            !.number_stack = Push(Push(S.number_stack, y), x)])

\* RAt2 pops both values and pushes them back: a failing second pop has
\* already removed the first value
Opcode_RAt2(S) ==
    IF Len(S.scratch_stack) < 2 THEN ScratchUnderflow(S)
    ELSE LET x == Top(S.scratch_stack, 1)
             y == Top(S.scratch_stack, 2)
         IN  Cont(WithNS(S, Push(Push(S.number_stack, y), x)))

Opcode_ADD(S) == LET f(a, b) == checked_add(a, b) IN execute_binary_op(S, f, "ADD")

\* the closure is |a, b| b.checked_sub(a): second - first
\* mutant of SUB: the operands the other way round
Opcode_SUB_Reversed(S) ==
    LET f(a, b) == checked_sub(a, b) IN execute_binary_op(S, f, "SUB")
Opcode_SUB(S) == LET f(a, b) == checked_sub(b, a) IN execute_binary_op(S, f, "SUB")

Opcode_MUL(S) == LET f(a, b) == checked_mul(a, b) IN execute_binary_op(S, f, "MUL")

Opcode_DIV(S) == execute_division(S, "DIV")

Opcode_NOT(S) ==
    IF ~Has(S, 1) THEN Underflow(S)
    ELSE LET x == Top(S.number_stack, 1) IN
         Cont(WithNS(S, Push(DropN(S.number_stack, 1), IF x = 0 THEN 1 ELSE 0)))

Opcode_DUP(S) ==
    IF ~Has(S, 1) THEN Underflow(S)
    ELSE Cont(WithNS(S, Push(S.number_stack, Top(S.number_stack, 1))))

Opcode_DUP2(S) ==
    IF ~Has(S, 2) THEN Underflow(S)
    ELSE LET x == Top(S.number_stack, 1)
             y == Top(S.number_stack, 2)
         IN  Cont(WithNS(S, DropN(S.number_stack, 2) \o <<y, x, y, x>>))

Opcode_OVER2(S) ==
    IF ~Has(S, 4) THEN Underflow(S)
    ELSE LET x4 == Top(S.number_stack, 1)
             x3 == Top(S.number_stack, 2)
             x2 == Top(S.number_stack, 3)
             x1 == Top(S.number_stack, 4)
         IN  Cont(WithNS(S, DropN(S.number_stack, 4) \o <<x1, x2, x3, x4, x1, x2>>))

Opcode_SWAP(S) ==
    IF ~Has(S, 2) THEN Underflow(S)
    ELSE LET x == Top(S.number_stack, 1)
             y == Top(S.number_stack, 2)
         IN  Cont(WithNS(S, DropN(S.number_stack, 2) \o <<x, y>>))

Opcode_SWAP2(S) ==
    IF ~Has(S, 4) THEN Underflow(S)
    ELSE LET x4 == Top(S.number_stack, 1)
             x3 == Top(S.number_stack, 2)
             x2 == Top(S.number_stack, 3)
             x1 == Top(S.number_stack, 4)
         IN  Cont(WithNS(S, DropN(S.number_stack, 4) \o <<x3, x4, x1, x2>>))

Opcode_NOP(S) == Cont(S)

Opcode_AND(S) ==
    IF ~Has(S, 2) THEN Underflow(S)
    ELSE LET x == Top(S.number_stack, 1)
             y == Top(S.number_stack, 2)
         IN  Cont(WithNS(S, Push(DropN(S.number_stack, 2), BitAnd(x, y))))

\* loop frames are pairs <<current_index, max_index>>
Opcode_PUSHLP(S) ==
    IF ~Has(S, 2) THEN Underflow(S)
    ELSE LET current_index == Top(S.number_stack, 1)
             max_index == Top(S.number_stack, 2)
         IN  Cont([S EXCEPT !.number_stack = DropN(S.number_stack, 2),
                            !.loop_stack = Push(S.loop_stack, <<current_index, max_index>>)])

\* *current_index += by: an overflowing sum panics when the build checks
\* overflow and wraps when it does not
AddToLoopIndex(S, by) ==
    LET n == Len(S.loop_stack)
        sum == S.loop_stack[n][1] + by
        set(v) == Cont([S EXCEPT !.loop_stack[n][1] = v])
    IN  IF InI64(sum) THEN {set(sum)} ELSE {Panic(S), set(WrapI64(sum))}

Opcode_INCLP(S) ==
    IF S.loop_stack = <<>> THEN {Return(S, Err("LoopStackUnderflow"))}
    ELSE AddToLoopIndex(S, 1)

Opcode_ADDLP(S) ==
    IF ~Has(S, 1) THEN {Underflow(S)}
    ELSE LET increment == Top(S.number_stack, 1)
             S1 == WithNS(S, DropN(S.number_stack, 1))
         IN  IF S1.loop_stack = <<>> THEN {Return(S1, Err("LoopStackUnderflow"))}
             ELSE AddToLoopIndex(S1, increment)

Opcode_GETLP(S) ==
    IF S.loop_stack = <<>> THEN Return(S, Err("LoopStackUnderflow"))
    ELSE Cont(WithNS(S, Push(S.number_stack, Top(S.loop_stack, 1)[1])))

\* mutant of GETLP2: no length check before len() - 2
Opcode_GETLP2_NoLengthCheck(S) ==
    IF Len(S.loop_stack) < 2 THEN Panic(S)
    ELSE Cont(WithNS(S, Push(S.number_stack, Top(S.loop_stack, 2)[1])))

Opcode_GETLP2(S) ==
    IF Len(S.loop_stack) < 2 THEN Return(S, Err("LoopStackUnderflow"))
    ELSE Cont(WithNS(S, Push(S.number_stack, Top(S.loop_stack, 2)[1])))

Opcode_DROPLP(S) ==
    IF S.loop_stack = <<>> THEN Return(S, Err("LoopStackUnderflow"))
    ELSE Cont([S EXCEPT !.loop_stack = DropN(S.loop_stack, 1)])

\* mutant of CMPLOOP: finished only once current_index is past max_index
Opcode_CMPLOOP_Strict(S) ==
    IF S.loop_stack = <<>> THEN Return(S, Err("LoopStackUnderflow"))
    ELSE LET current_index == Top(S.loop_stack, 1)[1]
             max_index == Top(S.loop_stack, 1)[2]
         IN  Cont(WithNS(S, Push(S.number_stack, IF current_index > max_index THEN 1 ELSE 0)))

Opcode_CMPLOOP(S) ==
    IF S.loop_stack = <<>> THEN Return(S, Err("LoopStackUnderflow"))
    ELSE LET current_index == Top(S.loop_stack, 1)[1]
             max_index == Top(S.loop_stack, 1)[2]
         IN  Cont(WithNS(S, Push(S.number_stack, IF current_index >= max_index THEN 1 ELSE 0)))

\* a sequence of n zero cells
Zeros(n) == [i \in 1..n |-> 0]

\* mutant of NEWCELLS: the memory is resized to count cells instead of being
\* grown by count cells
Opcode_NEWCELLS_ResizeToCount(S) ==
    IF ~Has(S, 1) THEN Underflow(S)
    ELSE LET count == Top(S.number_stack, 1)
             S1 == WithNS(S, DropN(S.number_stack, 1))
         IN  IF ~UsizeFromI64Ok(count) THEN Return(S1, Err("InvalidCellOperation"))
             ELSE IF count > MaxCells THEN Panic(S1)
             ELSE Cont([S1 EXCEPT !.cells =
                            [i \in 1..count |-> IF i <= Len(S1.cells) THEN S1.cells[i] ELSE 0]])

\* resize_with panics (capacity overflow) or aborts when the allocator cannot
\* provide the cells
Opcode_NEWCELLS(S) ==
    IF ~Has(S, 1) THEN Underflow(S)
    ELSE LET count == Top(S.number_stack, 1)
             S1 == WithNS(S, DropN(S.number_stack, 1))
         IN  IF ~UsizeFromI64Ok(count) THEN Return(S1, Err("InvalidCellOperation"))
             ELSE LET newaddress == Len(S1.cells) IN
                  IF newaddress + count > MaxCells THEN Panic(S1)
                  ELSE Cont([S1 EXCEPT !.cells = S1.cells \o Zeros(count)])

Min(a, b) == IF a <= b THEN a ELSE b

\* mutant of MOVETOCELLS: the range is not checked against cells.len(), the
\* store loop runs into the index check of the vector
Opcode_MOVETOCELLS_NoRangeCheck(S) ==
    IF ~Has(S, 1) THEN Underflow(S)
    ELSE LET count == Top(S.number_stack, 1) IN
         IF ~UsizeFromI64Ok(count)
         THEN Return(WithNS(S, DropN(S.number_stack, 1)), Err("InvalidCellOperation"))
         ELSE IF ~Has(S, 2) THEN Underflow(S)
         ELSE LET address == Top(S.number_stack, 2)
                  S1 == WithNS(S, DropN(S.number_stack, 2))
              IN  IF ~UsizeFromI64Ok(address) THEN Return(S1, Err("InvalidCellOperation"))
                  ELSE IF count < 1 THEN Return(S1, Err("InvalidCellOperation"))
                  ELSE Panic(S1)

\* mutant of MOVETOCELLS: the value popped last lands at the lowest address
Opcode_MOVETOCELLS_Ascending(S) ==
    IF ~Has(S, 1) THEN Underflow(S)
    ELSE LET count == Top(S.number_stack, 1) IN
         IF ~UsizeFromI64Ok(count)
         THEN Return(WithNS(S, DropN(S.number_stack, 1)), Err("InvalidCellOperation"))
         ELSE IF ~Has(S, 2) THEN Underflow(S)
         ELSE LET address == Top(S.number_stack, 2)
                  ns == DropN(S.number_stack, 2)
                  S1 == WithNS(S, ns)
              IN  IF ~UsizeFromI64Ok(address) THEN Return(S1, Err("InvalidCellOperation"))
                  ELSE IF count < 1 \/ Len(S.cells) < address + count
                       THEN Return(S1, Err("InvalidCellOperation"))
                  ELSE LET written == Min(count, Len(ns))
                           cells1 == [i \in 1..Len(S.cells) |->
                                        IF address + 1 <= i /\ i <= address + written
                                        THEN Top(ns, written - (i - address) + 1)
                                        ELSE S.cells[i]]
                           S2 == [S1 EXCEPT !.cells = cells1,
                                            !.number_stack = DropN(ns, written)]
                       IN  IF written < count
                           THEN Return(S2, Err("NumberStackUnderflow"))
                           ELSE Cont(S2)

\* the store loop pops one value per cell and stops at the first failing pop,
\* after the cells before it have been written
Opcode_MOVETOCELLS(S) ==
    IF ~Has(S, 1) THEN Underflow(S)
    ELSE LET count == Top(S.number_stack, 1) IN
         IF ~UsizeFromI64Ok(count)
         THEN Return(WithNS(S, DropN(S.number_stack, 1)), Err("InvalidCellOperation"))
         ELSE IF ~Has(S, 2) THEN Underflow(S)
         ELSE LET address == Top(S.number_stack, 2)
                  ns == DropN(S.number_stack, 2)
                  S1 == WithNS(S, ns)
              IN  IF ~UsizeFromI64Ok(address) THEN Return(S1, Err("InvalidCellOperation"))
                  ELSE IF count < 1 \/ Len(S.cells) < address + count
                       THEN Return(S1, Err("InvalidCellOperation"))
                  ELSE LET written == Min(count, Len(ns))
                           cells1 == [i \in 1..Len(S.cells) |->
                                        IF address + 1 <= i /\ i <= address + written
                                        THEN Top(ns, i - address)
                                        ELSE S.cells[i]]
                           S2 == [S1 EXCEPT !.cells = cells1,
                                            !.number_stack = DropN(ns, written)]
                       IN  IF written < count
                           THEN Return(S2, Err("NumberStackUnderflow"))
                           ELSE Cont(S2)

\* mutant of MOVEFROMCELLS: the lowest address is pushed first
Opcode_MOVEFROMCELLS_Ascending(S) ==
    IF ~Has(S, 1) THEN Underflow(S)
    ELSE LET count == Top(S.number_stack, 1) IN
         IF ~UsizeFromI64Ok(count)
         THEN Return(WithNS(S, DropN(S.number_stack, 1)), Err("InvalidCellOperation"))
         ELSE IF ~Has(S, 2) THEN Underflow(S)
         ELSE LET address == Top(S.number_stack, 2)
                  ns == DropN(S.number_stack, 2)
                  S1 == WithNS(S, ns)
              IN  IF ~UsizeFromI64Ok(address) THEN Return(S1, Err("InvalidCellOperation"))
                  ELSE IF count < 1 \/ Len(S.cells) < address + count
                       THEN Return(S1, Err("InvalidCellOperation"))
                  ELSE Cont(WithNS(S1, ns \o [j \in 1..count |->
                                                  S.cells[address + j]]))

\* the load loop pushes the cells from address + count - 1 down to address
Opcode_MOVEFROMCELLS(S) ==
    IF ~Has(S, 1) THEN Underflow(S)
    ELSE LET count == Top(S.number_stack, 1) IN
         IF ~UsizeFromI64Ok(count)
         THEN Return(WithNS(S, DropN(S.number_stack, 1)), Err("InvalidCellOperation"))
         ELSE IF ~Has(S, 2) THEN Underflow(S)
         ELSE LET address == Top(S.number_stack, 2)
                  ns == DropN(S.number_stack, 2)
                  S1 == WithNS(S, ns)
              IN  IF ~UsizeFromI64Ok(address) THEN Return(S1, Err("InvalidCellOperation"))
                  ELSE IF count < 1 \/ Len(S.cells) < address + count
                       THEN Return(S1, Err("InvalidCellOperation"))
                  ELSE Cont(WithNS(S1, ns \o [j \in 1..count |->
                                                  S.cells[address + count - j + 1]]))

(* ---------------------------------------------------------------------- *)
(* Trap handlers                                                           *)
(* ---------------------------------------------------------------------- *)
\* TrapHandler::new(handled_trap, f); the closure f is one of
\*   "PopPush"        pops a value (NumberStackUnderflow if none), pushes val,
\*                    returns Ok(Handled)
\*   "PushNotHandled" pushes val, returns Ok(NotHandled)
\*   "PushFail"       pushes val, returns Err(UnknownError)
TrapHandler(id, f, v) == [handled_trap |-> id, cb |-> f, val |-> v]

CallbackResult(S, r, e, c) == [st |-> S, ret |-> r, err |-> e, called |-> c]

to_run(h, S) ==
    CASE h.cb = "PopPush" ->
            IF S.number_stack = <<>>
            THEN CallbackResult(S, "Err", Err("NumberStackUnderflow"), TRUE)
            ELSE CallbackResult(WithNS(S, Push(DropN(S.number_stack, 1), h.val)),
                                "Handled", NoResult, TRUE)
      [] h.cb = "PushNotHandled" ->
            CallbackResult(WithNS(S, Push(S.number_stack, h.val)), "NotHandled", NoResult, TRUE)
      [] OTHER ->
            CallbackResult(WithNS(S, Push(S.number_stack, h.val)), "Err", Err("UnknownError"), TRUE)

\* mutant of handle_trap: the closure runs whatever the identifier
handle_trap_AnyId(h, trap_number, S) == to_run(h, S)

handle_trap(h, trap_number, S) ==
    IF trap_number = h.handled_trap
    THEN to_run(h, S)
    ELSE CallbackResult(S, "NotHandled", NoResult, FALSE)

\* mutant of the handler loop: the chain gives up at the first closure that
\* returns NotHandled
RECURSIVE TrapChain_StopsAtNotHandled(_, _, _, _, _)
TrapChain_StopsAtNotHandled(handlers, i, trap_id, S, invoked) ==
    IF i > Len(handlers)
    THEN [Return(S, UnhandledTrap(trap_id)) EXCEPT
             !.invoked = invoked, !.trap = [how |-> "Unhandled", id |-> trap_id]]
    ELSE LET r == handle_trap(handlers[i], trap_id, S)
             inv == IF r.called THEN Append(invoked, [pos |-> i, ret |-> r.ret])
                    ELSE invoked
         IN  CASE r.ret = "Err" ->
                    [Return(r.st, r.err) EXCEPT
                        !.invoked = inv, !.trap = [how |-> "Err", id |-> trap_id]]
               [] r.ret = "Handled" ->
                    [Return(r.st, OkResult) EXCEPT
                        !.invoked = inv, !.trap = [how |-> "Handled", id |-> trap_id]]
               [] r.called ->
                    [Return(r.st, UnhandledTrap(trap_id)) EXCEPT
                        !.invoked = inv, !.trap = [how |-> "Unhandled", id |-> trap_id]]
               [] OTHER -> TrapChain_StopsAtNotHandled(handlers, i + 1, trap_id, r.st, inv)

\* mutant of the handler loop: an error returned by a closure is taken as
\* NotHandled and the chain goes on
RECURSIVE TrapChain_IgnoresErr(_, _, _, _, _)
TrapChain_IgnoresErr(handlers, i, trap_id, S, invoked) ==
    IF i > Len(handlers)
    THEN [Return(S, UnhandledTrap(trap_id)) EXCEPT
             !.invoked = invoked, !.trap = [how |-> "Unhandled", id |-> trap_id]]
    ELSE LET r == handle_trap(handlers[i], trap_id, S)
             inv == IF r.called THEN Append(invoked, [pos |-> i, ret |-> r.ret])
                    ELSE invoked
         IN  CASE r.ret = "Handled" ->
                    [Return(r.st, OkResult) EXCEPT
                        !.invoked = inv, !.trap = [how |-> "Handled", id |-> trap_id]]
               [] OTHER -> TrapChain_IgnoresErr(handlers, i + 1, trap_id, r.st, inv)

\* the for loop over trap_handlers, from handler i on; invoked collects the
\* handlers whose closure has run
RECURSIVE TrapChain(_, _, _, _, _)
TrapChain(handlers, i, trap_id, S, invoked) ==
    IF i > Len(handlers)
    THEN [Return(S, UnhandledTrap(trap_id)) EXCEPT
             !.invoked = invoked, !.trap = [how |-> "Unhandled", id |-> trap_id]]
    ELSE LET r == handle_trap(handlers[i], trap_id, S)
             inv == IF r.called THEN Append(invoked, [pos |-> i, ret |-> r.ret])
                    ELSE invoked
         IN  CASE r.ret = "Err" ->
                    [Return(r.st, r.err) EXCEPT
                        !.invoked = inv, !.trap = [how |-> "Err", id |-> trap_id]]
               [] r.ret = "Handled" ->
                    [Return(r.st, OkResult) EXCEPT
                        !.invoked = inv, !.trap = [how |-> "Handled", id |-> trap_id]]
               [] OTHER -> TrapChain(handlers, i + 1, trap_id, r.st, inv)

\* mutant of TRAP: the identifier is read but left on the number stack
Opcode_TRAP_KeepsId(S, handlers) ==
    IF ~Has(S, 1) THEN Underflow(S)
    ELSE TrapChain(handlers, 1, Top(S.number_stack, 1), S, <<>>)

Opcode_TRAP(S, handlers) ==
    IF ~Has(S, 1) THEN Underflow(S)
    ELSE LET trap_id == Top(S.number_stack, 1) IN
         TrapChain(handlers, 1, trap_id, WithNS(S, DropN(S.number_stack, 1)), <<>>)

\* the match on the fetched opcode: the set of outcomes the instruction can
\* have (more than one only where the build decides: overflow checks)
Dispatch(opcode, S, handlers) ==
    CASE opcode.op = "JMP" -> {Opcode_JMP(S)}
      [] opcode.op = "JR" -> Opcode_JR(S)
      [] opcode.op = "CALL" -> {Opcode_CALL(S)}
      [] opcode.op = "CMPZ" -> {Opcode_CMPZ(S)}
      [] opcode.op = "CMPNZ" -> {Opcode_CMPNZ(S)}
      [] opcode.op = "JRZ" -> Opcode_JRZ(S)
      [] opcode.op = "JRNZ" -> Opcode_JRNZ(S)
      [] opcode.op = "LDI" -> {Opcode_LDI(S, opcode.arg)}
      [] opcode.op = "DROP" -> {Opcode_DROP(S)}
      [] opcode.op = "RET" -> {Opcode_RET(S)}
      [] opcode.op = "GtR" -> {Opcode_GtR(S)}
      [] opcode.op = "RGt" -> {Opcode_RGt(S)}
      [] opcode.op = "RAt" -> {Opcode_RAt(S)}
      [] opcode.op = "GtR2" -> {Opcode_GtR2(S)}
      [] opcode.op = "RGt2" -> {Opcode_RGt2(S)}
      [] opcode.op = "RAt2" -> {Opcode_RAt2(S)}
      [] opcode.op = "ADD" -> {Opcode_ADD(S)}
      [] opcode.op = "SUB" -> {Opcode_SUB(S)}
      [] opcode.op = "MUL" -> {Opcode_MUL(S)}
      [] opcode.op = "DIV" -> {Opcode_DIV(S)}
      [] opcode.op = "NOT" -> {Opcode_NOT(S)}
      [] opcode.op = "DUP" -> {Opcode_DUP(S)}
      [] opcode.op = "DUP2" -> {Opcode_DUP2(S)}
      [] opcode.op = "OVER2" -> {Opcode_OVER2(S)}
      [] opcode.op = "SWAP" -> {Opcode_SWAP(S)}
      [] opcode.op = "SWAP2" -> {Opcode_SWAP2(S)}
      [] opcode.op = "TRAP" -> {Opcode_TRAP(S, handlers)}
      [] opcode.op = "NOP" -> {Opcode_NOP(S)}
      [] opcode.op = "PUSHLP" -> {Opcode_PUSHLP(S)}
      [] opcode.op = "INCLP" -> Opcode_INCLP(S)
      [] opcode.op = "ADDLP" -> Opcode_ADDLP(S)
      [] opcode.op = "GETLP" -> {Opcode_GETLP(S)}
      [] opcode.op = "GETLP2" -> {Opcode_GETLP2(S)}
      [] opcode.op = "DROPLP" -> {Opcode_DROPLP(S)}
      [] opcode.op = "CMPLOOP" -> {Opcode_CMPLOOP(S)}
      [] opcode.op = "AND" -> {Opcode_AND(S)}
      [] opcode.op = "NEWCELLS" -> {Opcode_NEWCELLS(S)}
      [] opcode.op = "MOVETOCELLS" -> {Opcode_MOVETOCELLS(S)}
      [] opcode.op = "MOVEFROMCELLS" -> {Opcode_MOVEFROMCELLS(S)}

(* ---------------------------------------------------------------------- *)
(* Programs, seeds and handlers installed by the host                      *)
(* ---------------------------------------------------------------------- *)
\* LDI(-1); JR: loops forever unless gas runs out
ProgLoop == <<LDI(-1), Op("JR")>>
ProgDivZero == <<LDI(6), LDI(0), Op("DIV"), Op("RET")>>
\* four instructions, no jump, call or trap, none of which can fail
ProgStraight == <<LDI(1), LDI(2), Op("NOP"), Op("RET")>>
\* a subroutine at 3 that calls a subroutine at 6
ProgCall == <<LDI(3), Op("CALL"), Op("RET"), LDI(6), Op("CALL"), Op("RET"), Op("RET")>>
\* the program of test_handle_trap_1, run on the seed <<50, 100>>
ProgTrap == <<Op("TRAP"), Op("RET")>>
ProgIncLoop == <<LDI(0), LDI(I64_MAX), Op("PUSHLP"), Op("INCLP"), Op("RET")>>
ProgEmpty == <<>>

Programs ==
    {ProgLoop, ProgDivZero, ProgStraight, ProgCall, ProgTrap, ProgIncLoop, ProgEmpty}

Seeds == {<<>>, <<50, 100>>}

Handlers ==
    {TrapHandler(100, "PopPush", 200), TrapHandler(-100, "PopPush", -100),
     TrapHandler(-200, "PopPush", -200),
     TrapHandler(100, "PushNotHandled", 7), TrapHandler(100, "PushFail", 9)}

\* the handler lists of up to MaxHandlers handlers, in registration order
RECURSIVE SeqsUpTo(_, _)
SeqsUpTo(S, n) ==
    IF n = 0 THEN {<<>>}
    ELSE LET shorter == SeqsUpTo(S, n - 1) IN
         shorter \cup {Append(q, x) : q \in {r \in shorter : Len(r) = n - 1}, x \in S}

HandlerLists == SeqsUpTo(Handlers, MaxHandlers)

HasTrap(prog) == \E i \in 1..Len(prog) : prog[i].op = "TRAP"

GasLimits == {Unlimited} \cup {Limited(n) : n \in 0..MaxGas}

\* what the host puts into the public fields of StackMachineState before the
\* first call of execute: the program and the contents of the stacks and cells
Setup(prog, ns, ss, ls, cs) ==
    [opcodes |-> prog, number_stack |-> ns, scratch_stack |-> ss, loop_stack |-> ls,
     cells |-> cs]

\* the four arithmetic instructions, each reached by the starting point
ProgArith == <<Op("ADD"), Op("SUB"), Op("MUL"), Op("DIV"), Op("RET")>>
ArithValues == {I64_MIN, -1, 0, 3, I64_MAX}
\* <<321, 444>> is the stack of test_execute_sub
ArithSeeds ==
    {<<a, b>> : a \in ArithValues, b \in ArithValues}
        \cup {<<>>, <<5>>, <<321, 444>>, <<7, 321, 444>>, <<7, -7, 2>>}

\* the instructions that work on the scratch stack
ProgScratch == <<Op("RGt"), Op("RAt"), Op("RGt2"), Op("RAt2"), Op("GtR"), Op("GtR2")>>
ScratchSeeds == {<<>>, <<5>>, <<3, 4, 5>>}

\* the instructions that work on the loop stack; frames are
\* <<current_index, max_index>>
ProgLoopOps ==
    <<Op("INCLP"), Op("CMPLOOP"), Op("GETLP2"), Op("GETLP"), Op("ADDLP"), Op("DROPLP")>>
LoopSeeds ==
    {<<>>, <<<<0, 2>>>>, <<<<0, 3>>, <<0, 2>>>>, <<<<0, 3>>, <<I64_MAX, 2>>>>}

\* the remaining instructions that pop the operand stack
ProgStackOps ==
    <<Op("DROP"), Op("NOT"), Op("DUP"), Op("SWAP"), Op("AND"), Op("CMPZ"), Op("CMPNZ")>>
ProgStackOps2 == <<Op("DUP2"), Op("OVER2"), Op("SWAP2"), Op("JMP")>>
ProgCondJump == <<Op("JRZ"), Op("JRNZ"), Op("RET")>>
StackSeeds == {<<>>, <<1>>, <<0, 1>>, <<0, 2>>, <<5, 0>>, <<1, 2, 3>>, <<1, 2, 3, 4>>}

\* cell memory: allocate, store, load the two cells at address 0
ProgCells ==
    <<Op("NEWCELLS"), Op("MOVETOCELLS"), LDI(0), LDI(2), Op("MOVEFROMCELLS"), Op("RET")>>
\* <<0, 1, 2, 3, 0, 2>> on the cells <<0, 0>> is test_execute_movetocells_1
CellStackSeeds ==
    {<<>>, <<1>>, <<0, 1, 2, 3, 0, 2>>, <<5, 6, 1, 1>>, <<7, 0, 3>>, <<3, 0, -2>>, <<4, 0>>,
     <<I64_MAX>>, <<9, -1, 1>>, <<9, 1, 0>>}
CellSeeds == {<<>>, <<0, 0>>, <<8, 9, 4>>}

\* a relative jump at pc 1, the offset taken from the seed
ProgJump == <<Op("NOP"), Op("JR"), Op("RET")>>
JumpSeeds == {<<-2>>, <<-1>>, <<0>>, <<1>>, <<2>>, <<1, 0>>, <<I64_MAX>>, <<I64_MIN>>}

\* park two values, then one, on the scratch stack and take them back
ProgScratchTrip == <<Op("GtR2"), Op("RGt2"), Op("GtR"), Op("RGt"), Op("RET")>>

\* operand stacks for a CALL run from address 1 of ProgCall: a negative
\* target, and the valid target 5 (a RET)
CallSeeds == {<<-1>>, <<7, -1>>, <<5>>}

\* operand stacks for ProgTrap that hold the identifier 100 alone, so that the
\* closure of test_handle_trap_1 finds nothing to pop
TrapSeeds == {<<100>>}

Setups ==
    {Setup(p, s, <<>>, <<>>, <<>>) : p \in Programs, s \in Seeds}
        \cup {Setup(ProgArith, s, <<>>, <<>>, <<>>) : s \in ArithSeeds}
        \cup {Setup(ProgScratch, s, r, <<>>, <<>>) : s \in {<<>>, <<1, 2>>}, r \in ScratchSeeds}
        \cup {Setup(ProgLoopOps, s, <<>>, l, <<>>) : s \in {<<>>, <<1>>}, l \in LoopSeeds}
        \cup {Setup(p, s, <<>>, <<>>, <<>>) :
                  p \in {ProgStackOps, ProgStackOps2, ProgCondJump}, s \in StackSeeds}
        \cup {Setup(ProgCells, s, <<>>, <<>>, c) : s \in CellStackSeeds, c \in CellSeeds}
        \cup {Setup(ProgJump, s, <<>>, <<>>, <<>>) : s \in JumpSeeds}
        \cup {Setup(ProgCondJump, s, <<>>, <<>>, <<>>) :
                  s \in {<<5, I64_MAX>>, <<0, I64_MAX>>, <<0, -1>>, <<5, -2>>}}
        \cup {Setup(ProgScratchTrip, s, r, <<>>, <<>>) :
                  s \in {<<1, 2>>, <<7, 1, 2>>}, r \in {<<>>, <<3, 4, 5>>}}
        \cup {Setup(ProgCall, s, <<>>, <<>>, <<>>) : s \in CallSeeds}
        \cup {Setup(ProgTrap, s, <<>>, <<>>, <<>>) : s \in TrapSeeds}

(* ---------------------------------------------------------------------- *)
(* State                                                                   *)
(* ---------------------------------------------------------------------- *)
VARIABLES
    number_stack,    \* StackMachineState.number_stack
    scratch_stack,   \* StackMachineState.scratch_stack
    return_stack,    \* StackMachineState.return_stack
    loop_stack,      \* StackMachineState.loop_stack
    cells,           \* StackMachineState.cells
    opcodes,         \* StackMachineState.opcodes
    pc,              \* StackMachineState.pc
    gas_used,        \* StackMachineState.gas_used
    trap_handlers,   \* StackMachine.trap_handlers
    mode,            \* "idle": no call of execute is running; "running"; "panicked"
    gas_limit,       \* the gas_limit argument of the current (or last) call
    starting_point,  \* the starting_point argument of the current (or last) call
    result,          \* what the last call of execute returned (NoResult: nothing yet)
    calls,           \* history: number of calls of execute so far
    dispatched,      \* history: instructions fetched and dispatched by the current call
    last_op,         \* history: name of the instruction dispatched last ("none": none)
    invoked,         \* history: the handlers whose closure the last TRAP ran
    trap,            \* history: how the last TRAP of this call ended, for which identifier
    call_sites       \* history: pc of the CALL that pushed each return_stack entry

vars == <<number_stack, scratch_stack, return_stack, loop_stack, cells, opcodes, pc,
          gas_used, trap_handlers, mode, gas_limit, starting_point, result, calls,
          dispatched, last_op, invoked, trap, call_sites>>

\* the fields of StackMachineState the instructions work on
MachineState ==
    [number_stack |-> number_stack, scratch_stack |-> scratch_stack,
     return_stack |-> return_stack, loop_stack |-> loop_stack, cells |-> cells, pc |-> pc]

\* StackMachine::default() with the host's program, stack and cell contents
\* and handlers installed
Init ==
    /\ \E u \in Setups :
        /\ opcodes = u.opcodes
        /\ number_stack = u.number_stack
        /\ scratch_stack = u.scratch_stack
        /\ loop_stack = u.loop_stack
        /\ cells = u.cells
    /\ trap_handlers \in (IF HasTrap(opcodes) THEN HandlerLists ELSE {<<>>})
    /\ return_stack = <<>>
    /\ pc = 0
    /\ gas_used = 0
    /\ mode = "idle"
    /\ gas_limit = Unlimited
    /\ starting_point = 0
    /\ result = NoResult
    /\ calls = 0
    /\ dispatched = 0
    /\ last_op = "none"
    /\ invoked = <<>>
    /\ trap = NoTrap
    /\ call_sites = <<>>

(* ---------------------------------------------------------------------- *)
(* execute                                                                 *)
(* ---------------------------------------------------------------------- *)
\* mutant of the entry of execute: the return stack is cleared as well
Execute_ClearsReturnStack(start, limit) ==
    /\ mode = "idle"
    /\ calls < MaxCalls
    /\ gas_used' = 0
    /\ pc' = start
    /\ mode' = "running"
    /\ gas_limit' = limit
    /\ starting_point' = start
    /\ result' = NoResult
    /\ calls' = calls + 1
    /\ dispatched' = 0
    /\ last_op' = "none"
    /\ invoked' = <<>>
    /\ trap' = NoTrap
    /\ return_stack' = <<>>
    /\ call_sites' = <<>>
    /\ UNCHANGED <<number_stack, scratch_stack, loop_stack, cells, opcodes, trap_handlers>>

\* entry of execute: the gas counter and the program counter are reset,
\* nothing else is
Execute(start, limit) ==
    /\ mode = "idle"
    /\ calls < MaxCalls
    /\ gas_used' = 0
    /\ pc' = start
    /\ mode' = "running"
    /\ gas_limit' = limit
    /\ starting_point' = start
    /\ result' = NoResult
    /\ calls' = calls + 1
    /\ dispatched' = 0
    /\ last_op' = "none"
    /\ invoked' = <<>>
    /\ trap' = NoTrap
    /\ UNCHANGED <<number_stack, scratch_stack, return_stack, loop_stack, cells, opcodes,
                   trap_handlers, call_sites>>

\* self.st.opcodes.get(self.st.pc)
FetchOk == pc < Len(opcodes)

\* self.st.gas_used += 1
ChargeGas(g) == g + 1

\* mutants of the gas check: one instruction too late, one too early
GasExceeded_Late(g, gl) == gl.kind = "Limited" /\ g > gl.limit + 1
GasExceeded_Early(g, gl) == gl.kind = "Limited" /\ g >= gl.limit

\* if let GasLimit::Limited(limit) = gas_limit { if self.st.gas_used > limit
GasExceeded(g, gl) == gl.kind = "Limited" /\ g > gl.limit

\* mutant of the fetch: running past the last instruction ends the call with Ok
StepOutcomes_EndIsOk ==
    IF FetchOk THEN Dispatch(opcodes[pc + 1], MachineState, trap_handlers)
    ELSE {Return(MachineState, OkResult)}

\* what the fetch and the match can do in the current state
StepOutcomes ==
    IF FetchOk THEN Dispatch(opcodes[pc + 1], MachineState, trap_handlers)
    ELSE {Return(MachineState, Err("UnknownError"))}

\* one iteration of the loop of execute: fetch, dispatch, pc advance, gas
\* charge and gas check
Step ==
    /\ mode = "running"
    /\ gas_limit.kind = "Unlimited" => gas_used < MaxSteps
    /\ \E o \in StepOutcomes :
        /\ number_stack' = o.st.number_stack
        /\ scratch_stack' = o.st.scratch_stack
        /\ return_stack' = o.st.return_stack
        /\ loop_stack' = o.st.loop_stack
        /\ cells' = o.st.cells
        /\ invoked' = o.invoked
        /\ trap' = IF FetchOk /\ opcodes[pc + 1].op = "TRAP" THEN o.trap ELSE trap
        /\ CASE o.kind = "return" ->
                  /\ pc' = o.st.pc
                  /\ gas_used' = gas_used
                  /\ mode' = "idle"
                  /\ result' = o.result
             [] o.kind = "panic" ->
                  /\ pc' = o.st.pc
                  /\ gas_used' = gas_used
                  /\ mode' = "panicked"
                  /\ result' = NoResult
             [] OTHER ->
                  /\ pc' = IF o.pc_reset THEN o.st.pc ELSE o.st.pc + 1
                  /\ gas_used' = ChargeGas(gas_used)
                  /\ IF GasExceeded(gas_used', gas_limit)
                     THEN /\ mode' = "idle"
                          /\ result' = RanOutOfGas(gas_used', gas_limit)
                     ELSE /\ mode' = "running"
                          /\ result' = NoResult
    /\ dispatched' = IF FetchOk THEN dispatched + 1 ELSE dispatched
    /\ last_op' = IF FetchOk THEN opcodes[pc + 1].op ELSE "none"
    /\ call_sites' =
         IF FetchOk /\ opcodes[pc + 1].op = "CALL" THEN Append(call_sites, pc)
         ELSE IF FetchOk /\ opcodes[pc + 1].op = "RET" /\ call_sites # <<>>
              THEN DropN(call_sites, 1)
              ELSE call_sites
    /\ UNCHANGED <<opcodes, trap_handlers, gas_limit, starting_point, calls>>

Next ==
    \/ \E start \in 0..Len(opcodes), limit \in GasLimits : Execute(start, limit)
    \/ Step

Spec == Init /\ [][Next]_vars

(* ---------------------------------------------------------------------- *)
(* Properties                                                              *)
(* ---------------------------------------------------------------------- *)
\* the opcode at the program counter (meaningful where FetchOk)
CurOp == opcodes[pc + 1].op
\* the call of execute has returned a value
Returned == mode = "idle" /\ result.tag # "none"
IsLimited == gas_limit.kind = "Limited"

\* C1: when execute returns, gas_used equals the number of instructions
\* fetched and dispatched during the call, the instruction that failed or
\* ended the run included.
C1_GasCountsEveryDispatch == Returned => gas_used = dispatched

\* a program with no jump, call or trap whose instructions cannot fail,
\* ending in its only RET
StraightLine(prog) ==
    /\ Len(prog) >= 1
    /\ prog[Len(prog)].op = "RET"
    /\ \A i \in 1..(Len(prog) - 1) : prog[i].op \in {"LDI", "NOP"}

\* C2: a straight-line program of N instructions started at pc 0 with an
\* empty return stack returns Ok under Limited(N) and RanOutOfGas with
\* gas_used = N under Limited(N-1).
C2_StraightLineGas ==
    (Returned /\ StraightLine(opcodes) /\ starting_point = 0 /\ return_stack = <<>>)
        => LET N == Len(opcodes) IN
           /\ gas_limit = Limited(N) => result = OkResult
           /\ gas_limit = Limited(N - 1) => result = RanOutOfGas(N, Limited(N - 1))

\* C3: under Limited(n) every call of execute ends, having dispatched at most
\* n+1 instructions: the count of dispatched instructions never passes n+1,
\* the loop can always take its next iteration, and every iteration either
\* ends the call or dispatches one more instruction.
C3_LimitedTerminates ==
    /\ [](IsLimited => dispatched <= gas_limit.limit + 1)
    /\ []((mode = "running" /\ IsLimited) => ENABLED Step)
    /\ [][(mode = "running" /\ IsLimited) =>
             (mode' # "running" \/ dispatched' = dispatched + 1)]_vars

\* C3 witness: the endless loop LDI(-1); JR has been cut off by the gas limit
\* after n+1 instructions.
C3_Witness ==
    /\ opcodes = ProgLoop /\ Returned /\ IsLimited
    /\ gas_limit.limit >= 2
    /\ dispatched = gas_limit.limit + 1
    /\ result.tag = "RanOutOfGas"

\* C4: under Limited(n), gas_used <= n+1 always; execute returns RanOutOfGas
\* exactly when a completed step makes gas_used exceed n, with gas_used = n+1
\* and gas_limit = Limited(n) in the error; never under Unlimited.
C4_GasBound ==
    /\ (IsLimited /\ calls > 0) => gas_used <= gas_limit.limit + 1
    /\ (IsLimited /\ mode = "running") => gas_used <= gas_limit.limit
    /\ Returned =>
          /\ result.tag = "RanOutOfGas" <=> (IsLimited /\ gas_used > gas_limit.limit)
          /\ result.tag = "RanOutOfGas" =>
                /\ gas_used = gas_limit.limit + 1
                /\ result.gas_used = gas_used
                /\ result.gas_limit = gas_limit

\* C4 witness: a run under Limited(n), n >= 1, has ended with RanOutOfGas.
C4_Witness == Returned /\ result.tag = "RanOutOfGas" /\ gas_limit.limit >= 1

\* C5: a call of execute starts with gas_used = 0 and pc = starting_point and
\* with the stacks, the cells and the program as the previous call left them.
C5_ExecuteEntry ==
    [][(mode = "idle" /\ mode' = "running") =>
         /\ gas_used' = 0
         /\ pc' = starting_point'
         /\ UNCHANGED <<number_stack, scratch_stack, return_stack, loop_stack, cells, opcodes>>
      ]_vars

\* C5 witness: a second call starts, away from pc 0, on stacks the first call
\* left non-empty.
C5_Witness ==
    /\ calls = 2 /\ mode = "running" /\ dispatched = 0
    /\ gas_used = 0 /\ pc = starting_point /\ starting_point > 0
    /\ number_stack # <<>> /\ return_stack # <<>>

\* C6: CALL at pc p with a valid target A pushes p+1 on the return stack and
\* sets pc to A; the RET that pops an entry sets pc to the address after the
\* CALL that pushed it, so return addresses are consumed last in, first out.
C6_CallReturn ==
    [][(mode = "running" /\ FetchOk) =>
         /\ Len(call_sites) = Len(return_stack)
         /\ (CurOp = "CALL" /\ number_stack # <<>> /\ Top(number_stack, 1) >= 0) =>
               /\ return_stack' = Append(return_stack, pc + 1)
               /\ pc' = Top(number_stack, 1)
         /\ (CurOp = "RET" /\ return_stack # <<>>) =>
               /\ pc' = Top(call_sites, 1) + 1
               /\ return_stack' = DropN(return_stack, 1)
      ]_vars

\* C6 witness: in ProgCall the outer CALL at 1 has been returned to, at 2,
\* after the nested CALL at 4 and its RET.
C6_Witness ==
    /\ opcodes = ProgCall /\ calls = 1 /\ starting_point = 0
    /\ last_op = "RET" /\ dispatched = 6 /\ pc = 2 /\ return_stack = <<>>
    /\ mode = "running"

\* C7: RET on an empty return stack makes execute return Ok at once, leaving
\* the operand, scratch and loop stacks and the cells unchanged; execute
\* returns Ok only through such a RET or a TRAP whose handler reported Handled.
C7_RetHalts ==
    [][/\ (mode = "running" /\ FetchOk /\ CurOp = "RET" /\ return_stack = <<>>) =>
            /\ mode' = "idle"
            /\ result' = OkResult
            /\ UNCHANGED <<number_stack, scratch_stack, loop_stack, cells>>
       /\ (mode = "running" /\ mode' = "idle" /\ result'.tag = "Ok") =>
            /\ FetchOk
            /\ \/ CurOp = "RET" /\ return_stack = <<>>
               \/ /\ CurOp = "TRAP"
                  /\ invoked' # <<>>
                  /\ invoked'[Len(invoked')].ret = "Handled"
      ]_vars

\* C7 witness: a run has ended Ok at a RET with values on the operand stack.
C7_Witness ==
    Returned /\ result = OkResult /\ last_op = "RET" /\ number_stack # <<>> /\ dispatched > 1

\* the positions of the handlers registered with identifier t, in
\* registration order
MatchingPositions(handlers, t) ==
    LET Matches(i) == handlers[i].handled_trap = t
    IN  SelectSeq([i \in 1..Len(handlers) |-> i], Matches)
InvokedPositions(inv) == [k \in 1..Len(inv) |-> inv[k].pos]
IsPrefix(a, b) == Len(a) <= Len(b) /\ a = SubSeq(b, 1, Len(a))
\* the step is a TRAP that pops an identifier
TrapStep == mode = "running" /\ FetchOk /\ CurOp = "TRAP" /\ number_stack # <<>>

\* what C8 says of a TRAP step whose chain may stop at a closure returning
\* one of the values in stoppers
TrapOrder(stoppers) ==
    TrapStep =>
        LET t == Top(number_stack, 1)
            M == MatchingPositions(trap_handlers, t)
            P == InvokedPositions(invoked')
            n == Len(invoked')
        IN  /\ trap'.id = t
            /\ IsPrefix(P, M)
            /\ \A k \in 1..n : invoked'[k].ret \in stoppers => k = n
            /\ Len(P) < Len(M) => (n > 0 /\ invoked'[n].ret \in stoppers)
            /\ M = <<>> =>
                  /\ number_stack' = DropN(number_stack, 1)
                  /\ UNCHANGED <<scratch_stack, return_stack, loop_stack, cells, opcodes, pc>>

\* C8 as claimed: on TRAP with popped identifier t the closures invoked are
\* exactly those of the handlers registered with t, in registration order, up
\* to and including the first one that returns Handled; a handler registered
\* with another identifier is never invoked and changes no state.
C8_Original == [][TrapOrder({"Handled"})]_vars

\* C8 as amended: ... up to and including the first one that returns Handled
\* or returns an error.
C8_TrapOrder == [][TrapOrder({"Handled", "Err"})]_vars

\* C8 witness: a TRAP ran two closures registered for its identifier, the
\* first returned NotHandled and the second Handled, with a handler for
\* another identifier registered before them.
C8_Witness ==
    /\ last_op = "TRAP" /\ trap.how = "Handled"
    /\ Len(invoked) = 2 /\ invoked[1].ret = "NotHandled" /\ invoked[1].pos = 2

\* the handlers of a list have pairwise distinct identifiers
DistinctIds(handlers) ==
    \A i, j \in 1..Len(handlers) :
        i # j => handlers[i].handled_trap # handlers[j].handled_trap
\* the registration orders of the same handlers
RegistrationOrders(handlers) ==
    LET n == Len(handlers)
        Bijections == {f \in [1..n -> 1..n] : \A i, j \in 1..n : i # j => f[i] # f[j]}
    IN  {[i \in 1..n |-> handlers[f[i]]] : f \in Bijections}
\* what a TRAP does on S with the given handlers: the closures run (as
\* handlers, not positions), the state left and what execute returns
TrapEffect(S, handlers) ==
    LET o == Opcode_TRAP(S, handlers)
    IN  [ran |-> [k \in 1..Len(o.invoked) |-> handlers[o.invoked[k].pos]],
         st |-> o.st, kind |-> o.kind, result |-> o.result, how |-> o.trap]

\* C9: when the registered handlers have pairwise distinct identifiers, the
\* closure run by a TRAP, the stacks it leaves and the result of execute are
\* the same for every permutation of the registration order.
C9_OrderIrrelevant ==
    (TrapStep /\ DistinctIds(trap_handlers)) =>
        \A p \in RegistrationOrders(trap_handlers) :
            TrapEffect(MachineState, p) = TrapEffect(MachineState, trap_handlers)

\* C9 witness: a TRAP is about to run with three handlers of distinct
\* identifiers, the one for the trap's identifier registered second.
C9_Witness ==
    /\ TrapStep /\ DistinctIds(trap_handlers) /\ Len(trap_handlers) = 3
    /\ trap_handlers[2].handled_trap = Top(number_stack, 1)

\* C10: when a handler reports Handled the run ends at the TRAP: execute
\* returns Ok with no further instruction dispatched, the identifier is gone
\* from the operand stack and the handler's changes are there (<<50, 100>>
\* with a handler for 100 that pops one value and pushes 200 ends as <<200>>).
C10_HandledEndsRun ==
    [][(TrapStep /\ trap'.how = "Handled") =>
         LET h == trap_handlers[invoked'[Len(invoked')].pos] IN
         /\ mode' = "idle"
         /\ result' = OkResult
         /\ dispatched' = dispatched + 1
         /\ trap'.id = Top(number_stack, 1)
         /\ h.handled_trap = Top(number_stack, 1)
         /\ number_stack' # <<>> /\ Top(number_stack', 1) = h.val
         /\ Len(invoked') = 1 =>
               /\ Len(number_stack) >= 2
               /\ number_stack' = Push(DropN(number_stack, 2), h.val)
         /\ (number_stack = <<50, 100>> /\ h = TrapHandler(100, "PopPush", 200)
                /\ Len(invoked') = 1) => number_stack' = <<200>>
      ]_vars

\* C10 witness: the run of test_handle_trap_2 (handlers for -100, 100, -200 in
\* that order) has ended Ok at the TRAP with the operand stack <<200>>.
C10_Witness ==
    /\ Returned /\ result = OkResult /\ last_op = "TRAP" /\ dispatched = 1
    /\ opcodes = ProgTrap /\ calls = 1
    /\ trap_handlers = <<TrapHandler(-100, "PopPush", -100), TrapHandler(100, "PopPush", 200),
                          TrapHandler(-200, "PopPush", -200)>>
    /\ number_stack = <<200>>

\* what execute returns for a TRAP none of whose closures returned a value in
\* stoppers: UnhandledTrap carrying the identifier popped
TrapUnhandled(stoppers) ==
    (TrapStep /\ \A k \in 1..Len(invoked') : invoked'[k].ret \notin stoppers) =>
        /\ mode' = "idle"
        /\ result'.tag = "UnhandledTrap"
        /\ result'.id = Top(number_stack, 1)
        /\ trap'.how = "Unhandled"

\* C11 as claimed: if no registered handler reports Handled for a TRAP with
\* identifier t (empty handler list and handlers for other identifiers
\* included), execute returns UnhandledTrap carrying t, the value popped.
C11_Original == [][TrapUnhandled({"Handled"})]_vars

\* C11 as amended: if no registered handler reports Handled and none returns
\* an error for a TRAP with identifier t, execute returns UnhandledTrap
\* carrying t, the value popped.
C11_UnhandledTrap == [][TrapUnhandled({"Handled", "Err"})]_vars

\* C11 witness: a TRAP with identifier 100 ran a closure registered for 100
\* that returned NotHandled, past a handler for another identifier, and
\* execute returned UnhandledTrap carrying 100.
C11_Witness ==
    /\ Returned /\ last_op = "TRAP" /\ result.tag = "UnhandledTrap" /\ result.id = 100
    /\ Len(trap_handlers) = 2 /\ trap_handlers[1].handled_trap = -100
    /\ Len(invoked) = 1 /\ invoked[1].ret = "NotHandled"

\* how many values an instruction takes from the operand stack, the scratch
\* stack and the loop stack whatever their contents
NumberNeeds(op) ==
    CASE op \in {"OVER2", "SWAP2"} -> 4
      [] op \in {"JRZ", "JRNZ", "GtR2", "ADD", "SUB", "MUL", "DIV", "DUP2", "SWAP",
                 "PUSHLP", "AND"} -> 2
      [] op \in {"JMP", "JR", "CALL", "CMPZ", "CMPNZ", "DROP", "GtR", "NOT", "DUP", "TRAP",
                 "ADDLP", "NEWCELLS", "MOVETOCELLS", "MOVEFROMCELLS"} -> 1
      [] OTHER -> 0
ScratchNeeds(op) ==
    CASE op \in {"RGt2", "RAt2"} -> 2
      [] op \in {"RGt", "RAt"} -> 1
      [] OTHER -> 0
LoopNeeds(op) ==
    CASE op = "GETLP2" -> 2
      [] op \in {"INCLP", "ADDLP", "GETLP", "DROPLP", "CMPLOOP"} -> 1
      [] OTHER -> 0

\* C12: an instruction that needs a value from a stack that has none left
\* ends the run with that stack's underflow error and never aborts:
\* NumberStackUnderflow for the operand stack, ScratchStackUnderflow for
\* RGt/RAt/RGt2/RAt2, LoopStackUnderflow for INCLP/ADDLP/GETLP/DROPLP/CMPLOOP
\* on an empty loop stack and for GETLP2 on fewer than two frames.
C12_UnderflowIsError ==
    [][(mode = "running" /\ FetchOk) =>
         /\ Len(number_stack) < NumberNeeds(CurOp) =>
               (mode' = "idle" /\ result'.tag = "NumberStackUnderflow")
         /\ Len(scratch_stack) < ScratchNeeds(CurOp) =>
               (mode' = "idle" /\ result'.tag = "ScratchStackUnderflow")
         /\ (Len(number_stack) >= NumberNeeds(CurOp)
                /\ Len(loop_stack) < LoopNeeds(CurOp)) =>
               (mode' = "idle" /\ result'.tag = "LoopStackUnderflow")
      ]_vars

\* C12 witness: GETLP2 ran on a loop stack of one frame and execute returned
\* LoopStackUnderflow.
C12_Witness ==
    /\ Returned /\ last_op = "GETLP2" /\ Len(loop_stack) = 1
    /\ result.tag = "LoopStackUnderflow"

\* C13: for every program, every content of the stacks and cells and every
\* starting pc, execute never panics or aborts the process; every failure of
\* a step comes back to the caller as an Err value.
C13_NeverPanics == mode # "panicked"

\* the instruction at pc is about to run with at least k operands
OpStep(op, k) == mode = "running" /\ FetchOk /\ CurOp = op /\ Len(number_stack) >= k

\* the mathematical result of ADD, SUB, MUL on a (beneath) and b (top)
MathResult(op, a, b) ==
    CASE op = "ADD" -> a + b
      [] op = "SUB" -> b - a
      [] op = "MUL" -> a * b

\* C14: ADD, SUB and MUL whose mathematical result is outside the signed
\* range of the machine integer fail with NumericOverflow naming the
\* instruction executed and push nothing; a result in range is pushed exactly.
C14_CheckedArithmetic ==
    [][\A op \in {"ADD", "SUB", "MUL"} :
         OpStep(op, 2) =>
            LET a == Top(number_stack, 2)
                b == Top(number_stack, 1)
                rest == DropN(number_stack, 2)
                r == MathResult(op, a, b)
            IN  IF InI64(r)
                THEN /\ number_stack' = Push(rest, r)
                     /\ result'.tag \in {"none", "RanOutOfGas"}
                ELSE /\ mode' = "idle"
                     /\ result'.tag = "NumericOverflow"
                     /\ result'.failing_opcode = op
                     /\ number_stack' = rest
      ]_vars

\* C14 witness: a MUL whose product is out of range has ended the call with
\* NumericOverflow naming MUL, both operands popped and nothing pushed.
C14_Witness ==
    /\ Returned /\ last_op = "MUL" /\ dispatched = 1 /\ calls = 1
    /\ result.tag = "NumericOverflow" /\ result.failing_opcode = "MUL"
    /\ number_stack = <<>>

\* C15: SUB on an operand stack <<..., a, b>> (b on top) replaces the two
\* values by b - a and leaves the rest of the stack as it was; <<321, 444>>
\* becomes <<123>>.
C15_SubTopMinusBeneath ==
    [][OpStep("SUB", 2) =>
         LET a == Top(number_stack, 2)
             b == Top(number_stack, 1)
         IN  /\ InI64(b - a) =>
                   /\ Len(number_stack') = Len(number_stack) - 1
                   /\ Top(number_stack', 1) = b - a
                   /\ DropN(number_stack', 1) = DropN(number_stack, 2)
             /\ number_stack = <<321, 444>> => number_stack' = <<123>>
      ]_vars

\* C15 witness: SUB has run on <<7, 321, 444>> and left <<7, 123>>.
C15_Witness ==
    /\ last_op = "SUB" /\ dispatched = 1 /\ calls = 1 /\ opcodes = ProgArith
    /\ number_stack = <<7, 123>>

\* C16: DIV on <<..., dividend, divisor>> (divisor on top) returns
\* DivisionByZero naming DIV when the divisor is 0; for every other divisor it
\* pushes the truncating quotient and does not return DivisionByZero, the
\* smallest integer divided by -1 included.
C16_Division ==
    [][OpStep("DIV", 2) =>
         LET dividend == Top(number_stack, 2)
             divisor == Top(number_stack, 1)
             rest == DropN(number_stack, 2)
         IN  IF divisor = 0
             THEN /\ mode' = "idle"
                  /\ result'.tag = "DivisionByZero"
                  /\ result'.failing_opcode = "DIV"
             ELSE /\ result'.tag # "DivisionByZero"
                  /\ number_stack' = Push(rest, TruncDiv(dividend, divisor))
      ]_vars

\* C17: INCLP and ADDLP never wrap the loop counter: when current_index + 1
\* (INCLP) or current_index + increment (ADDLP) is outside the signed range
\* the instruction is rejected with an error returned from execute and the
\* top loop frame never holds a wrapped value.
C17_LoopCounterNeverWraps ==
    [][(mode = "running" /\ FetchOk /\ loop_stack # <<>>
          /\ (CurOp = "INCLP" \/ (CurOp = "ADDLP" /\ number_stack # <<>>))) =>
         LET current_index == Top(loop_stack, 1)[1]
             by == IF CurOp = "INCLP" THEN 1 ELSE Top(number_stack, 1)
         IN  ~InI64(current_index + by) =>
                /\ mode' = "idle"
                /\ result'.tag \notin {"none", "Ok"}
                /\ loop_stack' # <<>>
                /\ Top(loop_stack', 1)[1] # WrapI64(current_index + by)
      ]_vars

\* C18: with two or more frames on the loop stack INCLP, ADDLP, CMPLOOP,
\* GETLP and GETLP2 change no frame but the top one, and CMPLOOP, GETLP and
\* GETLP2 leave the whole loop stack as it is; CMPLOOP pushes 1 exactly when
\* the top frame's current_index >= max_index (0 otherwise) and GETLP2 pushes
\* the current_index of the frame beneath the top.
C18_NestedLoopFrames ==
    [][(mode = "running" /\ FetchOk /\ Len(loop_stack) >= 2
          /\ CurOp \in {"INCLP", "ADDLP", "CMPLOOP", "GETLP", "GETLP2"}) =>
         LET n == Len(loop_stack) IN
         /\ Len(loop_stack') = n
         /\ DropN(loop_stack', 1) = DropN(loop_stack, 1)
         /\ CurOp \in {"CMPLOOP", "GETLP", "GETLP2"} => loop_stack' = loop_stack
         /\ CurOp = "CMPLOOP" =>
               number_stack' =
                   Push(number_stack, IF loop_stack[n][1] >= loop_stack[n][2] THEN 1 ELSE 0)
         /\ CurOp = "GETLP2" => number_stack' = Push(number_stack, loop_stack[n - 1][1])
      ]_vars

\* C18 witness: on the frames (0,3) then (0,2), INCLP; CMPLOOP pushed 0, then
\* INCLP; CMPLOOP; GETLP2 pushed 1 and the outer index 0: the inner frame is
\* (2,2), the outer one still (0,3).
C18_Witness ==
    /\ opcodes = ProgLoopOps /\ last_op = "GETLP2"
    /\ loop_stack = <<<<0, 3>>, <<2, 2>>>>
    /\ number_stack = <<0, 1, 0>>

\* the step taken went through to the gas charge (the instruction succeeded)
StepSucceeded == result'.tag \in {"none", "RanOutOfGas"} /\ mode' # "panicked"

\* C19: a successful MOVETOCELLS pops count (top), then address, then exactly
\* count values, and stores the i-th value popped (i = 0 the topmost) at cell
\* address + i; it takes exactly count + 2 values from the operand stack and
\* changes no cell outside [address, address + count). The stack
\* <<0, 1, 2, 3, 0, 2>> on the cells <<0, 0>> gives the stack <<0, 1>> and the
\* cells <<3, 2>>.
C19_MoveToCells ==
    [][(OpStep("MOVETOCELLS", 2) /\ StepSucceeded) =>
         LET count == Top(number_stack, 1)
             address == Top(number_stack, 2)
             values == DropN(number_stack, 2)
         IN  /\ count >= 1 /\ address >= 0 /\ address + count <= Len(cells)
             /\ Len(values) >= count
             /\ number_stack' = DropN(number_stack, count + 2)
             /\ Len(cells') = Len(cells)
             /\ \A i \in 0..(count - 1) : cells'[address + i + 1] = Top(values, i + 1)
             /\ \A j \in 1..Len(cells) :
                   (j <= address \/ j > address + count) => cells'[j] = cells[j]
             /\ (number_stack = <<0, 1, 2, 3, 0, 2>> /\ cells = <<0, 0>>) =>
                   (number_stack' = <<0, 1>> /\ cells' = <<3, 2>>)
      ]_vars

\* C19 witness: MOVETOCELLS has run on <<0, 1, 2, 3, 0, 2>> with the cells
\* <<0, 0>> and left <<0, 1>> and <<3, 2>>.
C19_Witness ==
    /\ opcodes = ProgCells /\ last_op = "MOVETOCELLS" /\ dispatched = 1 /\ calls = 1
    /\ number_stack = <<0, 1>> /\ cells = <<3, 2>>

\* C20: round trip: whenever MOVETOCELLS(address, count) succeeds on an
\* operand stack S ++ <<v_count, ..., v_1, address, count>>, a MOVEFROMCELLS
\* with the same address and count after it succeeds and leaves the operand
\* stack S ++ <<v_count, ..., v_1>> (the values in their original order, the
\* lowest-address cell on top) and the cells as the store wrote them.
C20_CellRoundTrip ==
    OpStep("MOVETOCELLS", 2) =>
        LET count == Top(number_stack, 1)
            address == Top(number_stack, 2)
            stored == Opcode_MOVETOCELLS(MachineState)
            loaded == Opcode_MOVEFROMCELLS(
                          WithNS(stored.st, stored.st.number_stack \o <<address, count>>))
        IN  stored.kind = "continue" =>
               /\ loaded.kind = "continue"
               /\ loaded.st.number_stack = DropN(number_stack, 2)
               /\ loaded.st.cells = stored.st.cells
               /\ Top(loaded.st.number_stack, 1) = stored.st.cells[address + 1]

\* C20 witness: the program MOVETOCELLS; LDI 0; LDI 2; MOVEFROMCELLS has run
\* on <<0, 1, 2, 3, 0, 2>> with the cells <<0, 0>>: the stack is <<0, 1, 2, 3>>
\* again and the cells are <<3, 2>>.
C20_Witness ==
    /\ opcodes = ProgCells /\ last_op = "MOVEFROMCELLS" /\ dispatched = 4 /\ calls = 1
    /\ starting_point = 1
    /\ number_stack = <<0, 1, 2, 3>> /\ cells = <<3, 2>>

\* C21: MOVETOCELLS and MOVEFROMCELLS fail with InvalidCellOperation
\* whenever the address is negative or address + count is past the end of the
\* cell memory; then no cell is modified and no cell value is pushed.
C21_CellBounds ==
    [][\A op \in {"MOVETOCELLS", "MOVEFROMCELLS"} :
         OpStep(op, 2) =>
            LET count == Top(number_stack, 1)
                address == Top(number_stack, 2)
            IN  (address < 0 \/ address + count > Len(cells)) =>
                   /\ mode' = "idle"
                   /\ result'.tag = "InvalidCellOperation"
                   /\ cells' = cells
                   /\ IsPrefix(number_stack', number_stack)
      ]_vars

\* C21 witness: MOVEFROMCELLS with address 0 and count 2 on an empty cell
\* memory has ended the call with InvalidCellOperation.
C21_Witness ==
    /\ Returned /\ last_op = "MOVEFROMCELLS" /\ result.tag = "InvalidCellOperation"
    /\ cells = <<>> /\ dispatched = 1 /\ number_stack = <<0, 1, 2, 3>>

\* C22: NEWCELLS, MOVETOCELLS and MOVEFROMCELLS executed with a count <= 0
\* (0 included) each fail with InvalidCellOperation.
C22_NonPositiveCount ==
    [][/\ (OpStep("NEWCELLS", 1) /\ Top(number_stack, 1) <= 0) =>
             (mode' = "idle" /\ result'.tag = "InvalidCellOperation")
       /\ \A op \in {"MOVETOCELLS", "MOVEFROMCELLS"} :
             (OpStep(op, 2) /\ Top(number_stack, 1) <= 0) =>
                (mode' = "idle" /\ result'.tag = "InvalidCellOperation")
      ]_vars

\* C23: MOVETOCELLS never writes part of its range: whenever it returns an
\* error the cell memory is exactly what it was before the instruction.
C23_StoreAllOrNothing ==
    [][(mode = "running" /\ FetchOk /\ CurOp = "MOVETOCELLS" /\ ~StepSucceeded) =>
          cells' = cells
      ]_vars

\* C24: the length of the cell memory never decreases; a successful NEWCELLS
\* with count c makes it longer by exactly c, the new cells are 0 and the
\* cells that were there keep their values; no instruction other than
\* NEWCELLS changes the length.
C24_CellsOnlyGrow ==
    [][/\ Len(cells') >= Len(cells)
       /\ Len(cells') # Len(cells) => (mode = "running" /\ FetchOk /\ CurOp = "NEWCELLS")
       /\ (OpStep("NEWCELLS", 1) /\ StepSucceeded) =>
             LET c == Top(number_stack, 1) IN
             /\ c >= 0
             /\ Len(cells') = Len(cells) + c
             /\ \A i \in 1..Len(cells) : cells'[i] = cells[i]
             /\ \A i \in (Len(cells) + 1)..Len(cells') : cells'[i] = 0
      ]_vars

\* C24 witness: NEWCELLS with count 1 has made the cell memory <<0, 0>>, whose
\* cells a store had set to <<3, 2>>, one zero cell longer.
C24_Witness ==
    /\ last_op = "NEWCELLS" /\ mode = "running" /\ cells = <<3, 2, 0>>

\* C25: JR at pc p pops a signed offset and sets the next pc to exactly
\* p + offset, counted from the JR itself; for every offset whose p + offset
\* does not fit the address type execute returns the conversion error
\* (TryFromIntError) and the pc is never set to a wrapped or truncated value.
C25_RelativeJump ==
    [][OpStep("JR", 1) =>
         LET offset == Top(number_stack, 1)
             target == pc + offset
         IN  /\ number_stack' = DropN(number_stack, 1)
             /\ IF 0 <= target /\ target <= USIZE_MAX
                THEN pc' = target /\ StepSucceeded
                ELSE /\ mode' = "idle"
                     /\ result'.tag = "TryFromIntError"
                     /\ pc' = pc
      ]_vars

\* C26: JRZ and JRNZ pop the offset (top) and then the condition value, both
\* consumed whether or not the jump is taken; JRZ jumps to pc + offset iff
\* the condition is 0, JRNZ iff it is not 0; when the jump is not taken the
\* next pc is pc + 1.
C26_ConditionalJump ==
    [][\A op \in {"JRZ", "JRNZ"} :
         OpStep(op, 2) =>
            LET offset == Top(number_stack, 1)
                value == Top(number_stack, 2)
                target == pc + offset
                taken == IF op = "JRZ" THEN value = 0 ELSE value # 0
            IN  /\ number_stack' = DropN(number_stack, 2)
                /\ IF ~taken THEN pc' = pc + 1 /\ StepSucceeded
                   ELSE IF 0 <= target /\ target <= USIZE_MAX
                        THEN pc' = target /\ StepSucceeded
                        ELSE result'.tag = "TryFromIntError" /\ pc' = pc
      ]_vars

\* C27: whenever an instruction is fetched with the pc outside the
\* instruction sequence (empty program, starting point past the end, falling
\* off the end without RET) execute returns UnknownError and that step
\* modifies no stack and no cell.
C27_FetchOutOfBounds ==
    [][(mode = "running" /\ pc >= Len(opcodes)) =>
          /\ mode' = "idle"
          /\ result'.tag = "UnknownError"
          /\ UNCHANGED <<number_stack, scratch_stack, return_stack, loop_stack, cells>>
      ]_vars

\* C27 witness: a run that started inside the program fell off its end
\* without a RET and execute returned UnknownError.
C27_Witness ==
    /\ Returned /\ result.tag = "UnknownError" /\ pc = Len(opcodes)
    /\ starting_point < Len(opcodes) /\ dispatched >= 1 /\ last_op = "none"

\* C28: CMPZ pops x and pushes -1 if x = 0 and 0 otherwise; CMPNZ pops x and
\* pushes 0 if x = 0 and -1 otherwise; for every x the two results differ,
\* both are -1 or 0, and the rest of the operand stack is unchanged.
C28_CompareWithZero ==
    [][\A op \in {"CMPZ", "CMPNZ"} :
         OpStep(op, 1) =>
            LET x == Top(number_stack, 1)
                rest == DropN(number_stack, 1)
                z == Top(Opcode_CMPZ(MachineState).st.number_stack, 1)
                nz == Top(Opcode_CMPNZ(MachineState).st.number_stack, 1)
            IN  /\ StepSucceeded
                /\ op = "CMPZ" => number_stack' = Push(rest, IF x = 0 THEN -1 ELSE 0)
                /\ op = "CMPNZ" => number_stack' = Push(rest, IF x = 0 THEN 0 ELSE -1)
                /\ z # nz /\ {z, nz} = {-1, 0}
                /\ Top(number_stack', 1) = (IF op = "CMPZ" THEN z ELSE nz)
      ]_vars

\* C28 witness: CMPNZ has run on <<1, 2, 3>> and left <<1, 2, -1>>.
C28_Witness ==
    /\ last_op = "CMPNZ" /\ dispatched = 1 /\ calls = 1 /\ number_stack = <<1, 2, -1>>

\* C29: GtR2 followed by RGt2 is an order-preserving round trip: on an
\* operand stack ending in <<y, x>> GtR2 appends <<y, x>> to the scratch
\* stack in that order, and RGt2 after it restores the operand stack and the
\* scratch stack to what they were before the GtR2; likewise GtR followed by
\* RGt with one value.
C29_ScratchRoundTrip ==
    /\ OpStep("GtR2", 2) =>
          LET parked == Opcode_GtR2(MachineState)
              back == Opcode_RGt2(parked.st)
          IN  /\ parked.kind = "continue" /\ back.kind = "continue"
              /\ parked.st.number_stack = DropN(number_stack, 2)
              /\ parked.st.scratch_stack =
                    scratch_stack \o <<Top(number_stack, 2), Top(number_stack, 1)>>
              /\ back.st.number_stack = number_stack
              /\ back.st.scratch_stack = scratch_stack
    /\ OpStep("GtR", 1) =>
          LET parked == Opcode_GtR(MachineState)
              back == Opcode_RGt(parked.st)
          IN  /\ parked.kind = "continue" /\ back.kind = "continue"
              /\ parked.st.number_stack = DropN(number_stack, 1)
              /\ parked.st.scratch_stack = Push(scratch_stack, Top(number_stack, 1))
              /\ back.st.number_stack = number_stack
              /\ back.st.scratch_stack = scratch_stack

\* C29 witness: GtR2; RGt2 has run on the operand stack <<7, 1, 2>> with the
\* scratch stack <<3, 4, 5>> and both stacks are as they were.
C29_Witness ==
    /\ opcodes = ProgScratchTrip /\ last_op = "RGt2" /\ dispatched = 2 /\ calls = 1
    /\ number_stack = <<7, 1, 2>> /\ scratch_stack = <<3, 4, 5>>

\* C30 as claimed: the return stack is empty at the start of every call of
\* execute, whatever the earlier calls on the same machine did.
C30_Original == (mode = "running" /\ dispatched = 0) => return_stack = <<>>

\* C30 as amended: the return stack is empty on a fresh machine and execute
\* does not clear it: a call starts with the return stack the earlier calls
\* left. A RET executed as the first instruction of a call ends the call with
\* Ok exactly when the return stack is empty; otherwise it pops the address
\* left by an earlier call and goes on from there.
C30_ReturnStackPersists ==
    /\ [](calls = 0 => return_stack = <<>>)
    /\ [][/\ (mode = "idle" /\ mode' = "running") => return_stack' = return_stack
          /\ (mode = "running" /\ FetchOk /\ CurOp = "RET" /\ dispatched = 0) =>
                /\ (mode' = "idle" /\ result' = OkResult) <=> return_stack = <<>>
                /\ return_stack # <<>> =>
                      /\ pc' = Top(return_stack, 1)
                      /\ return_stack' = DropN(return_stack, 1)
                      /\ result'.tag \in {"none", "RanOutOfGas"}
         ]_vars

\* C30 witness: a second call started with a return address left by the
\* first call, which ran out of gas inside a subroutine, and its first
\* instruction, a RET, went on at that address instead of ending the call.
C30_Witness ==
    /\ calls = 2 /\ dispatched = 1 /\ last_op = "RET" /\ mode = "running"
    /\ opcodes = ProgCall /\ return_stack = <<>>

\* C31: RAt and RAt2 are pure peeks of the scratch stack: the scratch stack
\* after the instruction equals the scratch stack before it, when the
\* instruction succeeds and when it fails with ScratchStackUnderflow (RAt2 on
\* a scratch stack of exactly one value included).
C31_ScratchPeek ==
    [][(mode = "running" /\ FetchOk /\ CurOp \in {"RAt", "RAt2"}) =>
          scratch_stack' = scratch_stack
      ]_vars

\* the step is a CALL that fails: on an empty operand stack, or on a negative
\* target
CallFails ==
    /\ mode = "running" /\ FetchOk /\ CurOp = "CALL"
    /\ (number_stack = <<>> \/ Top(number_stack, 1) < 0)

\* C32 as claimed: a CALL that fails (empty operand stack, or negative target)
\* leaves the return stack unchanged.
C32_Original == [][CallFails => return_stack' = return_stack]_vars

\* C32 as amended: every CALL pushes pc + 1 on the return stack before it pops
\* the target. A CALL on an empty operand stack returns NumberStackUnderflow,
\* a CALL with a negative target pops it and returns a conversion error; both
\* leave pc at the CALL and the return stack one entry longer, and execute
\* keeps that entry for the calls that follow.
C32_CallPushesFirst ==
    /\ [][(mode = "running" /\ FetchOk /\ CurOp = "CALL") =>
             return_stack' = Push(return_stack, pc + 1)]_vars
    /\ [][CallFails =>
             /\ mode' = "idle"
             /\ pc' = pc
             /\ IF number_stack = <<>>
                THEN result' = Err("NumberStackUnderflow") /\ number_stack' = <<>>
                ELSE /\ result' = Err("TryFromIntError")
                     /\ number_stack' = DropN(number_stack, 1)
          ]_vars
    /\ [][(mode = "idle" /\ mode' = "running") => return_stack' = return_stack]_vars

\* C32 witness: the CALL at address 1 of ProgCall, run on the operand stack
\* <<7, -1>>, has returned a conversion error; the target is popped and the
\* return address 2 is on the return stack.
C32_Witness ==
    /\ Returned /\ last_op = "CALL" /\ result = Err("TryFromIntError")
    /\ opcodes = ProgCall /\ number_stack = <<7>> /\ return_stack = <<2>> /\ pc = 1

\* a closure run by the TRAP step being taken returned an error
ErrInvoked == \E k \in 1..Len(invoked') : invoked'[k].ret = "Err"

\* C33: if the callback of a handler offered a TRAP returns an error, execute
\* returns that same error at once: the failing callback is the last one
\* invoked, UnhandledTrap is not reported, and what the callbacks did to the
\* operand stack before the failure remains.
C33_HandlerError ==
    [][(TrapStep /\ ErrInvoked) =>
         LET n == Len(invoked')
             h == trap_handlers[invoked'[n].pos]
             t == Top(number_stack, 1)
             popped == DropN(number_stack, 1)
         IN  /\ invoked'[n].ret = "Err"
             /\ \A k \in 1..(n - 1) : invoked'[k].ret = "NotHandled"
             /\ IsPrefix(InvokedPositions(invoked'), MatchingPositions(trap_handlers, t))
             /\ mode' = "idle"
             /\ trap' = [how |-> "Err", id |-> t]
             /\ result'.tag \notin {"UnhandledTrap", "Ok", "none"}
             /\ pc' = pc /\ gas_used' = gas_used
             /\ UNCHANGED <<scratch_stack, return_stack, loop_stack, cells>>
             /\ h.cb = "PushFail" =>
                   /\ result' = Err("UnknownError")
                   /\ Len(number_stack') = Len(popped) + n
                   /\ Top(number_stack', 1) = h.val
                   /\ IsPrefix(popped, number_stack')
             /\ h.cb = "PopPush" =>
                   /\ result' = Err("NumberStackUnderflow")
                   /\ n = 1 /\ popped = <<>> /\ number_stack' = <<>>
      ]_vars

\* C33 witness: a TRAP with identifier 100 on <<50, 100>> ran a closure that
\* pushed 7 and returned NotHandled, then one that pushed 9 and returned an
\* error; execute returned that error, the third handler for 100 was not
\* invoked and the operand stack is <<50, 7, 9>>.
C33_Witness ==
    /\ Returned /\ last_op = "TRAP" /\ result = Err("UnknownError") /\ trap.how = "Err"
    /\ trap_handlers = <<TrapHandler(100, "PushNotHandled", 7), TrapHandler(100, "PushFail", 9),
                          TrapHandler(100, "PopPush", 200)>>
    /\ Len(invoked) = 2 /\ invoked[2] = [pos |-> 2, ret |-> "Err"]
    /\ number_stack = <<50, 7, 9>>
====
